---- MODULE Spec2Model ----
(***************************************************************************)
(* Model of the Dr.WEB scan plugin (scan.go): the HTTP handler webAvScan,  *)
(* the scan pipeline AvScan with its license guard (didLicenseExpire,      *)
(* updateLicense), the fatal check assert, and the output parser           *)
(* ParseDrWEBOutput.                                                       *)
(*                                                                         *)
(* Text is modelled as a sequence of tokens (a path, a word, a blank " "); *)
(* a transcript is a sequence of lines, as strings.Split(out, "\n") gives. *)
(* An error value is its text, Nil ("") standing for a nil error.          *)
(***************************************************************************)
EXTENDS Integers, Sequences, FiniteSets, TLC

\* Number of HTTP requests the web service handles in one run.
NumRequests == 2

Requests == 1..NumRequests

Nil == ""

\* The exit statuses the engine's command line distinguishes.
ExitThreat == "exit status 13"
ExitUnavailable == "exit status 119"
ExitGeneric == "exit status 1"
\* What a command bound to an expired context returns.
ErrKilled == "signal: killed"
ErrCtxDone == "context deadline exceeded"
ErrTimedOut == "command timed out"

ExitErrors == {ExitThreat, ExitUnavailable, ExitGeneric}

----------------------------------------------------------------------------
(* Strings *)

\* strings.Contains(line, sub)
Contains(line, sub) ==
    \E i \in 1..(Len(line) - Len(sub) + 1) :
        SubSeq(line, i, i + Len(sub) - 1) = sub

\* strings.HasPrefix / strings.TrimPrefix(line, prefix)
HasPrefix(line, prefix) ==
    /\ Len(prefix) <= Len(line)
    /\ SubSeq(line, 1, Len(prefix)) = prefix

TrimPrefix(line, prefix) ==
    IF HasPrefix(line, prefix)
    THEN SubSeq(line, Len(prefix) + 1, Len(line))
    ELSE line

\* strings.TrimSpace(line)
IsSpace(t) == t \in {" ", "\n"}

RECURSIVE TrimLeft(_)
TrimLeft(line) ==
    IF line # <<>> /\ IsSpace(Head(line)) THEN TrimLeft(Tail(line)) ELSE line

RECURSIVE TrimRight(_)
TrimRight(line) ==
    IF line # <<>> /\ IsSpace(line[Len(line)])
    THEN TrimRight(SubSeq(line, 1, Len(line) - 1))
    ELSE line

TrimSpace(line) == TrimRight(TrimLeft(line))

\* The markers the parser looks for.
OkMarker == <<"-", " ", "Ok">>
PathSep == <<" ", "-", " ">>
CoreEngine == <<"Core engine:">>
VirusBase == <<"Virus base records:">>
VersionPrefix == <<"drweb-ctl", " ">>

----------------------------------------------------------------------------
(* The global variable path *)

\* The name ioutil.TempFile("/malware", "web_") gives request r's upload.
TmpName(r) == IF r = 0 THEN "" ELSE "/malware/web_" \o ToString(r)

\* A Go string is a (pointer, length) pair written and read one word at a
\* time; a value whose two words come from different writes is torn.
PathStr(p) == IF p.ptr = p.len THEN TmpName(p.ptr) ELSE "torn"

\* path + " - ", the prefix ParseDrWEBOutput strips from a scan line.
PathPrefix(p) == (IF p = "" THEN <<>> ELSE <<p>>) \o PathSep

----------------------------------------------------------------------------
(* The external engine: what its commands print *)

\* drweb-ctl scan <p>: one line per target, then the final newline.
CleanOut(p) == << (IF p = "" THEN <<>> ELSE <<p>>) \o <<" ">> \o OkMarker, <<>> >>
ThreatOut(p) ==
    << PathPrefix(p) \o <<"infected", " ", "with", " ", "EICAR">>, <<>> >>
EmptyOut == << <<>> >>

\* The transcripts a scan of p can leave with completion error e.
ScanOutputs(p, e) ==
    IF e = Nil THEN {CleanOut(p), ThreatOut(p)}
    ELSE IF e = ExitThreat THEN {ThreatOut(p)}
    ELSE {EmptyOut}

\* drweb-ctl baseinfo
BaseInfoOut ==
    << <<"Core engine:", " ", "7.00.23">>,
       <<"Virus", " ", "records:", " ", "7599034">>,
       <<"Virus base records:", " ", "123456">>,
       <<>> >>

BaseInfoOutputs(e) == IF e = Nil THEN {BaseInfoOut} ELSE {EmptyOut}

\* drweb-ctl --version
VersionOut == <<"drweb-ctl", " ", "11.0.0", "\n">>

VersionOutputs(e) == IF e = Nil THEN {VersionOut} ELSE {<<>>}

\* drweb-ctl license
LicenseOutputs ==
    { <<"No license">>,
      <<"License", " ", "expires", " ", "2030-01-01">>,
      <<"License", " ", "is", " ", "blocked">>,
      <<"No license", " ", "key:", " ", "demo", " ", "expires", " ", "2017-01-01">> }

LicenseKeys == {"", "KEY-1"}

BuildTime == "20180101"
UpdatedMarker == "20180909"

----------------------------------------------------------------------------
(* ParseDrWEBOutput *)

\* ResultsData{}
ZeroResults ==
    [Infected |-> FALSE, Result |-> <<>>, Engine |-> <<>>,
     Database |-> <<>>, Updated |-> "", Error |-> ""]

\* ErrorResults without the case of the unavailable engine.
ErrorResultsPlain(drwebErr) == [ZeroResults EXCEPT !.Error = drwebErr]

\* ErrorResults reporting every error as the unavailable engine.
ErrorResultsUnavailable(drwebErr) ==
    [ZeroResults EXCEPT !.Error = "ScanEngine is not available"]

\* The branch taken for a non-nil scan error.
ErrorResults(drwebErr) ==
    IF drwebErr = ExitUnavailable
    THEN [ZeroResults EXCEPT !.Error = "ScanEngine is not available"]
    ELSE [ZeroResults EXCEPT !.Error = drwebErr]

\* ScanLoop going on past a line with the clean marker (continue for break).
RECURSIVE ScanLoopNoBreak(_, _, _)
ScanLoopNoBreak(lines, p, drweb) ==
    IF lines = <<>> THEN drweb
    ELSE LET line == Head(lines) IN
         IF Len(line) = 0 \/ Contains(line, OkMarker)
         THEN ScanLoopNoBreak(Tail(lines), p, drweb)
         ELSE ScanLoopNoBreak(Tail(lines), p,
                  [drweb EXCEPT !.Infected = TRUE,
                                !.Result = TrimSpace(TrimPrefix(line, PathPrefix(p)))])

\* ScanLoop keeping the first threat report instead of the last.
RECURSIVE ScanLoopFirstWins(_, _, _)
ScanLoopFirstWins(lines, p, drweb) ==
    IF lines = <<>> THEN drweb
    ELSE LET line == Head(lines) IN
         IF Len(line) = 0 THEN ScanLoopFirstWins(Tail(lines), p, drweb)
         ELSE IF Contains(line, OkMarker) THEN drweb
         ELSE IF drweb.Infected THEN ScanLoopFirstWins(Tail(lines), p, drweb)
         ELSE ScanLoopFirstWins(Tail(lines), p,
                  [drweb EXCEPT !.Infected = TRUE,
                                !.Result = TrimSpace(TrimPrefix(line, PathPrefix(p)))])

\* ScanLoop with the clean marker resetting the verdict but not the result.
RECURSIVE ScanLoopKeepResult(_, _, _)
ScanLoopKeepResult(lines, p, drweb) ==
    IF lines = <<>> THEN drweb
    ELSE LET line == Head(lines) IN
         IF Len(line) = 0 THEN ScanLoopKeepResult(Tail(lines), p, drweb)
         ELSE IF Contains(line, OkMarker) THEN [drweb EXCEPT !.Infected = FALSE]
         ELSE ScanLoopKeepResult(Tail(lines), p,
                  [drweb EXCEPT !.Infected = TRUE,
                                !.Result = TrimSpace(TrimPrefix(line, PathPrefix(p)))])

\* The loop over the scan transcript: stops at the first line holding the
\* clean marker; every other non-empty line is a threat report.
RECURSIVE ScanLoop(_, _, _)
ScanLoop(lines, p, drweb) ==
    IF lines = <<>> THEN drweb
    ELSE LET line == Head(lines) IN
         IF Len(line) = 0 THEN ScanLoop(Tail(lines), p, drweb)
         ELSE IF Contains(line, OkMarker) THEN drweb
         ELSE ScanLoop(Tail(lines), p,
                  [drweb EXCEPT !.Infected = TRUE,
                                !.Result = TrimSpace(TrimPrefix(line, PathPrefix(p)))])

\* The loop over the baseinfo transcript.
RECURSIVE BaseInfoLoop(_, _)
BaseInfoLoop(lines, drweb) ==
    IF lines = <<>> THEN drweb
    ELSE LET line == Head(lines)
             d1 == IF Len(line) # 0 /\ Contains(line, CoreEngine)
                   THEN [drweb EXCEPT !.Engine = TrimSpace(TrimPrefix(line, CoreEngine))]
                   ELSE drweb
             d2 == IF Len(line) # 0 /\ Contains(line, VirusBase)
                   THEN [d1 EXCEPT !.Database = TrimSpace(TrimPrefix(line, VirusBase))]
                   ELSE d1
         IN BaseInfoLoop(Tail(lines), d2)

\* The nil-error branch, given what getDrWebVersion and getUpdatedDate
\* returned and the value of the global path.
ParseDrWEBOutput(drwebOut, baseInfo, version, updated, p) ==
    BaseInfoLoop(baseInfo,
        ScanLoop(drwebOut, p,
            [ZeroResults EXCEPT !.Engine = version, !.Updated = updated]))

\* getDrWebVersion's conversion of the --version output.
DrWebVersion(versionOut) == TrimSpace(TrimPrefix(versionOut, VersionPrefix))

----------------------------------------------------------------------------
(* State *)

VARIABLES
    accepted,    \* the requests the web service receives in this run
    exits,       \* the failure exit statuses the engine's commands end with
    path,        \* the global path, as its two words [ptr, len]
    LicenseKey,  \* the global LicenseKey
    crashed,     \* log.Fatal has ended the process
    pc,          \* pc[r]: where request r's handler stands
    ctxDone,     \* ctxDone[r]: the deadline of r's AvScan context has expired
    expired,     \* expired[r]: what didLicenseExpire returned
    output,      \* output[r]: AvScan's output, the scan transcript
    sErr,        \* sErr[r]: AvScan's sErr, the scan error
    baseinfo,    \* baseinfo[r]: the baseinfo transcript
    version,     \* version[r]: what getDrWebVersion returned
    results,     \* results[r]: the ResultsData AvScan returns
    response,    \* response[r]: the HTTP response written, "" or "200"
    cmds         \* cmds[r]: the commands r has invoked, in order

vars == <<accepted, exits, path, LicenseKey, crashed, pc, ctxDone, expired, output,
          sErr, baseinfo, version, results, response, cmds>>

----------------------------------------------------------------------------
(* Running a process *)

\* exec.CommandContext(ctx, ...).Output(), ctx expired or not (done): the
\* error returned and whether ctx has expired by the time it returns.  An
\* expired context starts nothing; a deadline that expires while the process
\* runs kills it.
CommandContext(done) ==
    IF done
    THEN {[err |-> ErrCtxDone, done |-> TRUE]}
    ELSE {[err |-> e, done |-> FALSE] : e \in {Nil} \cup exits}
         \cup {[err |-> ErrKilled, done |-> TRUE]}

\* utils.RunCommand(ctx, ...): the same, and a run that ends well after the
\* deadline is reported as timed out.
RunCommand(done) ==
    CommandContext(done)
    \cup (IF done THEN {} ELSE {[err |-> ErrTimedOut, done |-> TRUE]})

\* utils.RunCommand(nil, ...): no context, no deadline.
RunCommandNoCtx == {Nil} \cup exits

\* assert(err) ends the process unless err is nil or "exit status 13".
Fatal(err) == err # Nil /\ err # ExitThreat

----------------------------------------------------------------------------
(* AvScan's context *)

\* The positions between AvScan's context.WithTimeout and its return.
InAvScan ==
    {"didLicenseExpire", "license", "updateLicense", "renew", "configd",
     "scan", "rescan", "baseinfo", "parse", "getDrWebVersion", "lines"}

\* One invoked command: its name, its argument, whether it is bound to the
\* scan's context, whether that context had already expired, and the error
\* it returned.
Cmd(name, arg, ctx, late, e) ==
    [cmd |-> name, arg |-> arg, ctx |-> ctx, late |-> late, err |-> e]

\* An invoked command whose output the caller reads, with that output.
CmdOut(name, arg, ctx, late, e, out) ==
    [cmd |-> name, arg |-> arg, ctx |-> ctx, late |-> late, err |-> e,
     out |-> out]

Start ==
    /\ path = [ptr |-> 0, len |-> 0]
    /\ LicenseKey \in LicenseKeys
    /\ crashed = FALSE
    /\ pc = [r \in Requests |-> "idle"]
    /\ ctxDone = [r \in Requests |-> FALSE]
    /\ expired = [r \in Requests |-> FALSE]
    /\ output = [r \in Requests |-> <<>>]
    /\ sErr = [r \in Requests |-> Nil]
    /\ baseinfo = [r \in Requests |-> <<>>]
    /\ version = [r \in Requests |-> <<>>]
    /\ results = [r \in Requests |-> ZeroResults]
    /\ response = [r \in Requests |-> ""]
    /\ cmds = [r \in Requests |-> <<>>]

\* One request, and an engine whose commands can end with any exit status.
Init == Start /\ accepted = {1} /\ exits = ExitErrors

\* All requests in flight, and an engine whose commands end well unless
\* the deadline cuts them short.
InitWeb == Start /\ accepted = Requests /\ exits = {}

\* log.Fatal in request r's goroutine: os.Exit ends every handler.
Exit(r) ==
    /\ pc' = [pc EXCEPT ![r] = "fatal"]
    /\ crashed' = TRUE

\* assert(err), then on to position next.
AssertThen(r, err, next) ==
    IF Fatal(err)
    THEN Exit(r)
    ELSE /\ pc' = [pc EXCEPT ![r] = next]
         /\ UNCHANGED crashed

\* r's handler is at position at and the process is alive.
At(r, at) == r \in accepted /\ ~crashed /\ pc[r] = at

\* r invokes a command.
Invoke(r, c) == cmds' = [cmds EXCEPT ![r] = Append(@, c)]

----------------------------------------------------------------------------
(* webAvScan *)

\* The upload is stored in a temporary file and the first word of
\* path = tmpfile.Name() is written; an I/O error ends the process.
WebAvScan(r) ==
    /\ At(r, "idle")
    /\ \E ioErr \in BOOLEAN :
          IF ioErr
          THEN Exit(r) /\ UNCHANGED path
          ELSE /\ path' = [path EXCEPT !.ptr = r]
               /\ pc' = [pc EXCEPT ![r] = "setPath"]
               /\ UNCHANGED crashed
    /\ UNCHANGED <<accepted, exits, LicenseKey, ctxDone, expired, output, sErr,
                   baseinfo, version, results, response, cmds>>

\* The second word of path = tmpfile.Name(); AvScan(60) is entered.
SetPath(r) ==
    /\ At(r, "setPath")
    /\ path' = [path EXCEPT !.len = r]
    /\ pc' = [pc EXCEPT ![r] = "didLicenseExpire"]
    /\ UNCHANGED <<accepted, exits, LicenseKey, crashed, ctxDone, expired, output,
                   sErr, baseinfo, version, results, response, cmds>>

\* The response is written once AvScan has returned.
Respond(r) ==
    /\ At(r, "respond")
    /\ response' = [response EXCEPT ![r] = "200"]
    /\ pc' = [pc EXCEPT ![r] = "done"]
    /\ UNCHANGED <<accepted, exits, path, LicenseKey, crashed, ctxDone, expired,
                   output, sErr, baseinfo, version, results, cmds>>

\* The deadline of r's context passes while r sleeps or computes.
DeadlineExceeded(r) ==
    /\ r \in accepted /\ ~crashed
    /\ pc[r] \in InAvScan
    /\ ~ctxDone[r]
    /\ ctxDone' = [ctxDone EXCEPT ![r] = TRUE]
    /\ UNCHANGED <<accepted, exits, path, LicenseKey, crashed, pc, expired, output,
                   sErr, baseinfo, version, results, response, cmds>>

----------------------------------------------------------------------------
(* didLicenseExpire and updateLicense, with AvScan's assert of their error *)

\* didLicenseExpire starts the daemon; an error is returned with false.
DidLicenseExpire(r) ==
    /\ At(r, "didLicenseExpire")
    /\ \E o \in CommandContext(ctxDone[r]) :
          /\ ctxDone' = [ctxDone EXCEPT ![r] = o.done]
          /\ Invoke(r, Cmd("configd", "", TRUE, ctxDone[r], o.err))
          /\ IF o.err # Nil
             THEN AssertThen(r, o.err, "configd")
             ELSE pc' = [pc EXCEPT ![r] = "license"] /\ UNCHANGED crashed
    /\ expired' = [expired EXCEPT ![r] = FALSE]
    /\ UNCHANGED <<accepted, exits, path, LicenseKey, output, sErr, baseinfo,
                   version, results, response>>

\* LicenseExpired looking for "expires" alone.
LicenseExpiredUnlessExpires(lOut) == ~Contains(lOut, <<"expires">>)

\* LicenseExpired taking every output for an expired license.
LicenseExpiredAlways(lOut) == TRUE

\* What didLicenseExpire makes of the license query's output.
LicenseExpired(lOut) ==
    IF Contains(lOut, <<"No license">>) THEN TRUE
    ELSE IF Contains(lOut, <<"expires">>) THEN FALSE
    ELSE TRUE

\* didLicenseExpire queries the license.
License(r) ==
    /\ At(r, "license")
    /\ \E o \in CommandContext(ctxDone[r]) :
          /\ ctxDone' = [ctxDone EXCEPT ![r] = o.done]
          /\ IF o.err # Nil
             THEN /\ Invoke(r, CmdOut("license", "", TRUE, ctxDone[r], o.err, <<>>))
                  /\ expired' = [expired EXCEPT ![r] = FALSE]
                  /\ AssertThen(r, o.err, "configd")
             ELSE \E lOut \in LicenseOutputs :
                     /\ Invoke(r, CmdOut("license", "", TRUE, ctxDone[r], o.err, lOut))
                     /\ expired' = [expired EXCEPT ![r] = LicenseExpired(lOut)]
                     /\ pc' = [pc EXCEPT ![r] =
                                  IF LicenseExpired(lOut) THEN "updateLicense"
                                  ELSE "configd"]
                     /\ UNCHANGED crashed
    /\ UNCHANGED <<accepted, exits, path, LicenseKey, output, sErr, baseinfo,
                   version, results, response>>

\* updateLicense starts the daemon; an error is returned to AvScan.
UpdateLicense(r) ==
    /\ At(r, "updateLicense")
    /\ \E o \in CommandContext(ctxDone[r]) :
          /\ ctxDone' = [ctxDone EXCEPT ![r] = o.done]
          /\ Invoke(r, Cmd("configd", "", TRUE, ctxDone[r], o.err))
          /\ IF o.err # Nil
             THEN AssertThen(r, o.err, "configd")
             ELSE pc' = [pc EXCEPT ![r] = "renew"] /\ UNCHANGED crashed
    /\ UNCHANGED <<accepted, exits, path, LicenseKey, expired, output, sErr,
                   baseinfo, version, results, response>>

\* The sub-command updateLicense renews with.
RenewCmd(key) == IF key # "" THEN "GetRegistered" ELSE "GetDemo"

\* The error updateLicense returns once the renew command has returned e.
RenewError(e) == Nil

\* updateLicense returns an error when the context has expired; otherwise
\* it runs the renew command, logs what it returned and returns nil.
Renew(r) ==
    /\ At(r, "renew")
    /\ IF ctxDone[r]
       THEN /\ AssertThen(r, ErrTimedOut, "configd")
            /\ UNCHANGED <<ctxDone, cmds>>
       ELSE \E o \in RunCommand(ctxDone[r]) :
               /\ ctxDone' = [ctxDone EXCEPT ![r] = o.done]
               /\ Invoke(r, Cmd(RenewCmd(LicenseKey), LicenseKey, TRUE, FALSE, o.err))
               /\ AssertThen(r, RenewError(o.err), "configd")
    /\ UNCHANGED <<accepted, exits, path, LicenseKey, expired, output, sErr,
                   baseinfo, version, results, response>>

----------------------------------------------------------------------------
(* AvScan *)

\* The daemon is started before the scan.
Configd(r) ==
    /\ At(r, "configd")
    /\ \E o \in CommandContext(ctxDone[r]) :
          /\ ctxDone' = [ctxDone EXCEPT ![r] = o.done]
          /\ Invoke(r, Cmd("configd", "", TRUE, ctxDone[r], o.err))
          /\ AssertThen(r, o.err, "scan")
    /\ UNCHANGED <<accepted, exits, path, LicenseKey, expired, output, sErr,
                   baseinfo, version, results, response>>

\* AfterScan without the second attempt.
AfterScanNoRetry(at, e) == "baseinfo"

\* AfterScan going past the baseinfo command after a first attempt that
\* succeeded.
AfterScanSkipBaseInfo(at, e) ==
    IF at = "scan" /\ e # Nil THEN "rescan"
    ELSE IF at = "scan" THEN "parse" ELSE "baseinfo"

\* Where AvScan goes once a scan attempt has returned e: to the second
\* attempt after a failed first one, else to the baseinfo command.
AfterScan(at, e) == IF at = "scan" /\ e # Nil THEN "rescan" ELSE "baseinfo"

\* RunScan with the second attempt assigning to variables of its own block:
\* output and sErr keep what the first attempt left.
RunScanShadowed(r, at) ==
    /\ At(r, at)
    /\ \E o \in RunCommand(ctxDone[r]) :
       \E out \in ScanOutputs(PathStr(path), o.err) :
          /\ ctxDone' = [ctxDone EXCEPT ![r] = o.done]
          /\ Invoke(r, CmdOut("scan", PathStr(path), TRUE, ctxDone[r], o.err, out))
          /\ output' = IF at = "scan" THEN [output EXCEPT ![r] = out] ELSE output
          /\ sErr' = IF at = "scan" THEN [sErr EXCEPT ![r] = o.err] ELSE sErr
          /\ pc' = [pc EXCEPT ![r] = IF at = "scan" /\ o.err # Nil THEN "rescan" ELSE "baseinfo"]
    /\ UNCHANGED <<accepted, exits, path, LicenseKey, crashed, expired, baseinfo,
                   version, results, response>>

\* One attempt of drweb-ctl scan on the global path, the first (at = "scan")
\* or the second (at = "rescan").
RunScan(r, at) ==
    /\ At(r, at)
    /\ \E o \in RunCommand(ctxDone[r]) :
       \E out \in ScanOutputs(PathStr(path), o.err) :
          /\ ctxDone' = [ctxDone EXCEPT ![r] = o.done]
          /\ Invoke(r, CmdOut("scan", PathStr(path), TRUE, ctxDone[r], o.err, out))
          /\ output' = [output EXCEPT ![r] = out]
          /\ sErr' = [sErr EXCEPT ![r] = o.err]
          /\ pc' = [pc EXCEPT ![r] = AfterScan(at, o.err)]
    /\ UNCHANGED <<accepted, exits, path, LicenseKey, crashed, expired, baseinfo,
                   version, results, response>>

Scan(r) == RunScan(r, "scan")

Rescan(r) == RunScan(r, "rescan")

\* The baseinfo command and the assert of its error.
BaseInfo(r) ==
    /\ At(r, "baseinfo")
    /\ \E o \in RunCommand(ctxDone[r]) :
       \E out \in BaseInfoOutputs(o.err) :
          /\ ctxDone' = [ctxDone EXCEPT ![r] = o.done]
          /\ Invoke(r, Cmd("baseinfo", "", TRUE, ctxDone[r], o.err))
          /\ baseinfo' = [baseinfo EXCEPT ![r] = out]
          /\ AssertThen(r, o.err, "parse")
    /\ UNCHANGED <<accepted, exits, path, LicenseKey, expired, output, sErr,
                   version, results, response>>

\* ParseDrWEBOutput is entered: a scan error is returned at once.
Parse(r) ==
    /\ At(r, "parse")
    /\ IF sErr[r] # Nil
       THEN /\ results' = [results EXCEPT ![r] = ErrorResults(sErr[r])]
            /\ pc' = [pc EXCEPT ![r] = "respond"]
       ELSE /\ pc' = [pc EXCEPT ![r] = "getDrWebVersion"]
            /\ UNCHANGED results
    /\ UNCHANGED <<accepted, exits, path, LicenseKey, crashed, ctxDone, expired,
                   output, sErr, baseinfo, version, response, cmds>>

\* getDrWebVersion runs the version query with no context.
GetDrWebVersion(r) ==
    /\ At(r, "getDrWebVersion")
    /\ \E e \in RunCommandNoCtx :
       \E out \in VersionOutputs(e) :
          /\ Invoke(r, Cmd("version", "", FALSE, ctxDone[r], e))
          /\ version' = [version EXCEPT ![r] = DrWebVersion(out)]
          /\ AssertThen(r, e, "lines")
    /\ UNCHANGED <<accepted, exits, path, LicenseKey, ctxDone, expired, output,
                   sErr, baseinfo, results, response>>

\* getUpdatedDate: the build time when the marker file is absent, the
\* file's content when it can be read, the end of the process otherwise.
\* Then both transcripts are parsed, against the global path.
Lines(r) ==
    /\ At(r, "lines")
    /\ \E marker \in {"absent", "present", "unreadable"} :
          IF marker = "unreadable"
          THEN Exit(r) /\ UNCHANGED results
          ELSE /\ results' = [results EXCEPT ![r] =
                      ParseDrWEBOutput(output[r], baseinfo[r], version[r],
                          IF marker = "absent" THEN BuildTime ELSE UpdatedMarker,
                          PathStr(path))]
               /\ pc' = [pc EXCEPT ![r] = "respond"]
               /\ UNCHANGED crashed
    /\ UNCHANGED <<accepted, exits, path, LicenseKey, ctxDone, expired, output,
                   sErr, baseinfo, version, response, cmds>>

----------------------------------------------------------------------------

Next ==
    \E r \in Requests :
        \/ WebAvScan(r)
        \/ SetPath(r)
        \/ DidLicenseExpire(r)
        \/ License(r)
        \/ UpdateLicense(r)
        \/ Renew(r)
        \/ Configd(r)
        \/ Scan(r)
        \/ Rescan(r)
        \/ BaseInfo(r)
        \/ Parse(r)
        \/ GetDrWebVersion(r)
        \/ Lines(r)
        \/ Respond(r)
        \/ DeadlineExceeded(r)

Spec == Init /\ [][Next]_vars

\* The web service takes up the next request once the handlers of the
\* earlier ones have returned.
Accept(r) ==
    /\ ~crashed
    /\ r \notin accepted
    /\ \A q \in Requests : q < r => q \in accepted /\ pc[q] = "done"
    /\ accepted' = accepted \cup {r}
    /\ UNCHANGED <<exits, path, LicenseKey, crashed, pc, ctxDone, expired,
                   output, sErr, baseinfo, version, results, response, cmds>>

\* One request to begin with, the others following one after the other.
InitTwice == Start /\ accepted = {1} /\ exits = {}

NextTwice == Next \/ \E r \in Requests : Accept(r)

SpecTwice == InitTwice /\ [][NextTwice]_vars

SpecWeb == InitWeb /\ [][Next]_vars

----------------------------------------------------------------------------
(* ParseDrWEBOutput on its own: any transcripts, any scan error *)

\* The longest transcript given to the parser, in lines.
MaxLines == 3

\* The sequences over S of at most n elements.
SeqsUpTo(S, n) == UNION {[1..k -> S] : k \in 0..n}

\* The lines of a scan transcript for the file of request 1.
ScanLines ==
    LET p == TmpName(1) IN
    { <<>>,
      <<p, " ">> \o OkMarker,
      <<p>> \o PathSep \o <<"Trojan.Test">>,
      <<p>> \o PathSep \o <<"infected", " ", "with", " ", "EICAR", " ">>,
      <<p>> \o PathSep,
      <<"Win32.Virus", " ", "found">> }

\* The lines of a baseinfo transcript.
BaseInfoLines ==
    { <<>>,
      <<"Core engine:", " ", "7.0.1">>,
      <<"Core engine:", " ", "7.0.2", " ">>,
      <<"Virus base records:", " ", "123456">>,
      <<"Virus base records:", " ", "99">>,
      <<"Virus", " ", "records:", " ", "7599034">>,
      <<"Previous", " ", "Core engine:", " ", "6.0">> }

\* The errors a scan can end with.
ScanErrors == {Nil} \cup ExitErrors \cup {ErrKilled, ErrCtxDone, ErrTimedOut}

\* AvScan is about to call ParseDrWEBOutput(output, baseinfo, sErr): any scan
\* transcript with the usual baseinfo transcript, or any baseinfo transcript
\* with a usual scan transcript, and any scan error.
InitParse ==
    /\ accepted = {1}
    /\ exits = ExitErrors
    /\ path = [ptr |-> 1, len |-> 1]
    /\ LicenseKey = ""
    /\ crashed = FALSE
    /\ pc = [r \in Requests |-> IF r = 1 THEN "parse" ELSE "idle"]
    /\ ctxDone = [r \in Requests |-> FALSE]
    /\ expired = [r \in Requests |-> FALSE]
    /\ \E in \in (SeqsUpTo(ScanLines, MaxLines) \X {BaseInfoOut})
                  \cup ({CleanOut(TmpName(1)), ThreatOut(TmpName(1))}
                        \X SeqsUpTo(BaseInfoLines, MaxLines)) :
          /\ output = [r \in Requests |-> IF r = 1 THEN in[1] ELSE <<>>]
          /\ baseinfo = [r \in Requests |-> IF r = 1 THEN in[2] ELSE <<>>]
    /\ \E e \in ScanErrors : sErr = [r \in Requests |-> IF r = 1 THEN e ELSE Nil]
    /\ version = [r \in Requests |-> <<>>]
    /\ results = [r \in Requests |-> ZeroResults]
    /\ response = [r \in Requests |-> ""]
    /\ cmds = [r \in Requests |-> <<>>]

NextParse ==
    \E r \in Requests :
        \/ Parse(r)
        \/ GetDrWebVersion(r)
        \/ Lines(r)

SpecParse == InitParse /\ [][NextParse]_vars

----------------------------------------------------------------------------
(* What a run has done, read off the commands it invoked *)

\* The scan attempts of r, in order.
ScanCmds(r) == SelectSeq(cmds[r], LAMBDA c : c.cmd = "scan")

\* The last command r invoked is named name.
LastCmdIs(r, name) == cmds[r] # <<>> /\ cmds[r][Len(cmds[r])].cmd = name

\* r invoked a command named name.
Invoked(r, name) == \E i \in DOMAIN cmds[r] : cmds[r][i].cmd = name

\* r's AvScan is past its last scan attempt.
ScanOver(r) == pc[r] = "baseinfo" \/ Invoked(r, "baseinfo")

\* r's AvScan has returned its outcome.
Returned(r) == pc[r] \in {"respond", "done"}

\* The exit statuses of a failed scan other than threat-found.
ScanFailures == {ExitUnavailable, ExitGeneric}

ThreatName == <<"infected", " ", "with", " ", "EICAR">>

----------------------------------------------------------------------------
(* Claims *)

\* C1: in every step in which a request passes the global path to the scan
\* command, or strips the "<path> - " prefix with it, the path is the
\* temporary file of that same request.
C1_PathIsOwn ==
    [][\A r \in Requests :
          (pc[r] \in {"scan", "rescan", "lines"} /\ pc'[r] # pc[r] /\ ~crashed')
              => PathStr(path) = TmpName(r)]_vars

\* C2: when the last scan attempt ended with exit status 13, leaving the
\* threat line in the transcript, the scan error reaches the parser as nil
\* and the outcome returned is infected, names the threat and has no error.
C2_ThreatIsSuccess ==
    \A r \in Requests :
        LET sc == ScanCmds(r) IN
        (/\ Returned(r)
         /\ sc # <<>> /\ sc[Len(sc)].err = ExitThreat
         /\ output[r] = ThreatOut(sc[Len(sc)].arg))
            => /\ sErr[r] = Nil
               /\ results[r].Infected
               /\ results[r].Result = ThreatName
               /\ results[r].Error = ""

\* C3: once the renew command has failed the scan is over: AvScan has ended
\* the process, and no command was invoked after the renew command.
C3_RenewFailureIsFatal ==
    \A r \in Requests : \A i \in DOMAIN cmds[r] :
        (cmds[r][i].cmd \in {"GetRegistered", "GetDemo"} /\ cmds[r][i].err # Nil)
            => pc[r] = "fatal" /\ i = Len(cmds[r])

\* C4: a scan attempt cut short by the deadline never ends the process, and
\* the outcome returned after it carries an error message.
C4_TimeoutIsOutcomeError ==
    \A r \in Requests :
        (\E i \in DOMAIN cmds[r] :
            /\ cmds[r][i].cmd = "scan"
            /\ ~cmds[r][i].late
            /\ cmds[r][i].err \in {ErrKilled, ErrTimedOut})
            => /\ pc[r] # "fatal"
               /\ Returned(r) => results[r].Error # ""

\* C5: when both scan attempts ended with exit status 119 or a generic
\* failure and the baseinfo command succeeded, AvScan does not end the
\* process, and the outcome it returns has the error message set: "ScanEngine
\* is not available" after exit status 119, the error's text otherwise.
C5_ScanFailureIsOutcomeError ==
    \A r \in Requests :
        LET sc == ScanCmds(r) IN
        (/\ Len(sc) = 2
         /\ sc[1].err \in ScanFailures /\ sc[2].err \in ScanFailures
         /\ LastCmdIs(r, "baseinfo") /\ cmds[r][Len(cmds[r])].err = Nil)
            => /\ pc[r] # "fatal"
               /\ Returned(r) =>
                     /\ results[r].Error # ""
                     /\ results[r].Error =
                            IF sc[2].err = ExitUnavailable
                            THEN "ScanEngine is not available"
                            ELSE sc[2].err

\* C5's case: both attempts failed, the second with exit status 119, and the
\* outcome was returned.
C5_Witness ==
    \E r \in Requests :
        LET sc == ScanCmds(r) IN
        /\ Len(sc) = 2
        /\ sc[1].err = ExitGeneric /\ sc[2].err = ExitUnavailable
        /\ LastCmdIs(r, "baseinfo") /\ cmds[r][Len(cmds[r])].err = Nil
        /\ pc[r] = "respond"
        /\ results[r].Error = "ScanEngine is not available"

\* C6: the baseinfo command is invoked right after the last scan attempt,
\* whatever that attempt returned, and once it has failed the process has
\* ended, so that ParseDrWEBOutput is never reached.
C6_MetadataFailureAborts ==
    \A r \in Requests :
        /\ (ScanOver(r) /\ pc[r] # "baseinfo") =>
              \E i \in DOMAIN cmds[r] :
                  /\ i > 1
                  /\ cmds[r][i].cmd = "baseinfo" /\ cmds[r][i - 1].cmd = "scan"
        /\ \A i \in DOMAIN cmds[r] :
              (cmds[r][i].cmd = "baseinfo" /\ cmds[r][i].err # Nil)
                  => pc[r] = "fatal" /\ i = Len(cmds[r])

\* C7: once the daemon start or the license query of didLicenseExpire has
\* failed the process has ended, and no command was invoked afterwards.
C7_LicenseCheckFailureAborts ==
    \A r \in Requests : \A i \in DOMAIN cmds[r] :
        (/\ cmds[r][i].err # Nil
         /\ \/ i = 1
            \/ i = 2 /\ cmds[r][i].cmd = "license")
            => pc[r] = "fatal" /\ i = Len(cmds[r])

\* C8: every command a scan invokes is bound to the scan's context, and a
\* command invoked after the deadline is cancelled without starting.
C8_AllBoundToDeadline ==
    \A r \in Requests : \A i \in DOMAIN cmds[r] :
        /\ cmds[r][i].ctx
        /\ cmds[r][i].late => cmds[r][i].err = ErrCtxDone

\* C9: the scan command is never invoked more than twice; once AvScan is
\* past the scan it was invoked once if the first attempt succeeded and
\* twice if it failed.
C9_RetryExactlyOnce ==
    \A r \in Requests :
        LET sc == ScanCmds(r) IN
        /\ Len(sc) <= 2
        /\ ScanOver(r) =>
              /\ Len(sc) >= 1
              /\ sc[1].err = Nil => Len(sc) = 1
              /\ sc[1].err # Nil => Len(sc) = 2

\* C9's case: the first attempt failed, the second attempt was made and
\* AvScan went on to the baseinfo command.
C9_Witness ==
    \E r \in Requests :
        LET sc == ScanCmds(r) IN
        /\ Len(sc) = 2
        /\ sc[1].err = ExitGeneric
        /\ pc[r] = "baseinfo"

\* C10: after a first attempt that ended with exit status 13 there is no
\* second attempt: the scan command is invoked once.
C10_ThreatNotRetried ==
    \A r \in Requests :
        LET sc == ScanCmds(r) IN
        (sc # <<>> /\ sc[1].err = ExitThreat)
            => pc[r] # "rescan" /\ Len(sc) = 1

\* The license query of r's didLicenseExpire returned an output of this set.
LicenseQueried(r, outs) ==
    \E i \in DOMAIN cmds[r] :
        cmds[r][i].cmd = "license" /\ cmds[r][i].err = Nil /\ cmds[r][i].out \in outs

\* The renew commands r invoked.
RenewCmds(r) == SelectSeq(cmds[r], LAMBDA c : c.cmd \in {"GetRegistered", "GetDemo"})

\* The outputs that show a valid license: "expires" and no "No license".
ValidOutputs ==
    {l \in LicenseOutputs :
        Contains(l, <<"expires">>) /\ ~Contains(l, <<"No license">>)}

\* C11: a license guard that was shown a valid license invokes no renew
\* command and does not enter updateLicense, in the first scan of a run and
\* in every scan that follows it.
C11_ValidLicenseNotRenewed ==
    \A r \in Requests :
        LicenseQueried(r, ValidOutputs)
            => /\ RenewCmds(r) = <<>>
               /\ ~expired[r]
               /\ pc[r] \notin {"updateLicense", "renew"}

\* C11's case: two scans in a row, each shown a valid license, both returned.
C11_Witness ==
    /\ \A r \in {1, 2} : LicenseQueried(r, ValidOutputs) /\ pc[r] = "done"
    /\ RenewCmds(1) = <<>> /\ RenewCmds(2) = <<>>

\* The places in r's commands of those named in names.
Places(r, names) == {i \in DOMAIN cmds[r] : cmds[r][i].cmd \in names}

RenewNames == {"GetRegistered", "GetDemo"}

\* C12: the license query's output is taken for valid when it holds
\* "expires" and no "No license" and for expired otherwise, and a scan
\* command that follows an output not valid follows exactly one renew
\* command: GetRegistered with the license key when one is set, GetDemo
\* otherwise.
C12_RenewedOnceBeforeScan ==
    \A r \in Requests :
        /\ \A i \in Places(r, {"license"}) :
              cmds[r][i].err = Nil =>
                  expired[r] = (cmds[r][i].out \notin ValidOutputs)
        /\ (LicenseQueried(r, LicenseOutputs \ ValidOutputs) /\ Invoked(r, "scan"))
              => /\ Len(RenewCmds(r)) = 1
                 /\ \A i \in Places(r, RenewNames) : \A j \in Places(r, {"scan"}) : i < j
                 /\ RenewCmds(r)[1].cmd =
                        IF LicenseKey # "" THEN "GetRegistered" ELSE "GetDemo"
                 /\ RenewCmds(r)[1].arg = LicenseKey

\* C13: the commands of one scan come in the order license check, renewal,
\* daemon start, scan attempts, baseinfo, version query: the scan attempts
\* follow every command of the license guard and directly follow the daemon
\* start, baseinfo follows the last scan attempt, and ParseDrWEBOutput (with
\* its version query) is entered only once baseinfo has returned.
C13_StrictOrder ==
    \A r \in Requests :
        LET scans == Places(r, {"scan"})
            guard == Places(r, {"license"} \cup RenewNames)
            meta  == Places(r, {"baseinfo"})
            vers  == Places(r, {"version"})
        IN  /\ \A i \in guard : \A j \in scans : i < j
            /\ \A j \in scans :
                  /\ j > 1
                  /\ cmds[r][1].cmd = "configd"
                  /\ cmds[r][j - 1].cmd \in {"configd", "scan"}
            /\ \A i \in scans : \A j \in meta : i < j
            /\ \A j \in meta : j > 1 /\ cmds[r][j - 1].cmd = "scan"
            /\ \A j \in vers : j > 1 /\ cmds[r][j - 1].cmd = "baseinfo"
            /\ Cardinality(meta) <= 1 /\ Cardinality(vers) <= 1
            /\ pc[r] \in {"scan", "rescan"} => meta = {} /\ LastCmdIs(r, IF pc[r] = "scan" THEN "configd" ELSE "scan")
            /\ pc[r] = "baseinfo" => LastCmdIs(r, "scan")
            /\ pc[r] \in {"parse", "getDrWebVersion"} => LastCmdIs(r, "baseinfo")
            /\ pc[r] = "lines" => LastCmdIs(r, "version")
            /\ Returned(r) => meta # {}

\* C13's case: a scan with a renewal and two attempts that has returned.
C13_Witness ==
    \E r \in Requests :
        /\ pc[r] = "done"
        /\ Len(RenewCmds(r)) = 1
        /\ Len(ScanCmds(r)) = 2
        /\ Invoked(r, "version")

\* C20: once a second attempt was made, output and sErr are what it left,
\* and the outcome returned is that of the second attempt alone: its error
\* when it failed; no error message and the verdict of its transcript when
\* it succeeded.
C20_OutcomeFromRetry ==
    \A r \in Requests :
        LET sc == ScanCmds(r) IN
        (Len(sc) = 2 /\ ScanOver(r))
            => /\ output[r] = sc[2].out
               /\ sErr[r] = sc[2].err
               /\ (Returned(r) /\ sc[2].err # Nil) =>
                     /\ results[r].Error \in {sc[2].err, "ScanEngine is not available"}
                     /\ ~results[r].Infected
               /\ (Returned(r) /\ sc[2].err = Nil) =>
                     /\ results[r].Error = ""
                     /\ results[r].Infected = (sc[2].out = ThreatOut(sc[2].arg))
                     /\ results[r].Result =
                            IF sc[2].out = ThreatOut(sc[2].arg) THEN ThreatName ELSE <<>>

\* C20's case: a first attempt that reported a threat and failed, a second
\* attempt that succeeded with a clean transcript, and the outcome returned.
C20_Witness ==
    \E r \in Requests :
        LET sc == ScanCmds(r) IN
        /\ Len(sc) = 2
        /\ sc[1].err = ExitThreat /\ sc[1].out = ThreatOut(sc[1].arg)
        /\ sc[2].err = Nil /\ sc[2].out = CleanOut(sc[2].arg)
        /\ pc[r] = "respond"
        /\ results[r].Error = "" /\ ~results[r].Infected

----------------------------------------------------------------------------
(* Claims about ParseDrWEBOutput *)

\* A line holds the clean marker "- Ok".
Marked(line) == Contains(line, OkMarker)

\* The non-empty lines of a transcript without the clean marker.
Unmarked(lines) == {i \in DOMAIN lines : Len(lines[i]) # 0 /\ ~Marked(lines[i])}

\* The place of the first line with the clean marker, or past the end.
FirstMarked(lines) ==
    IF \E i \in DOMAIN lines : Marked(lines[i])
    THEN CHOOSE i \in DOMAIN lines :
             Marked(lines[i]) /\ \A j \in 1..(i - 1) : ~Marked(lines[j])
    ELSE Len(lines) + 1

\* The largest element of a non-empty set of numbers.
Max(S) == CHOOSE i \in S : \A j \in S : j <= i

\* A scan line with the "<path> - " prefix stripped and trimmed.
Stripped(line) == TrimSpace(TrimPrefix(line, PathPrefix(PathStr(path))))

\* ParseDrWEBOutput has returned to r with a nil scan error.
Parsed(r) == Returned(r) /\ sErr[r] = Nil

\* C14 as stated: a transcript with a non-empty line without the clean
\* marker is parsed as infected, with the last such line as the result.
C14_AnyUnmarkedLineInfects ==
    \A r \in Requests :
        (Parsed(r) /\ Unmarked(output[r]) # {})
            => /\ results[r].Infected
               /\ results[r].Result = Stripped(output[r][Max(Unmarked(output[r]))])

\* C14 as amended: a transcript with a non-empty line without the clean
\* marker before its first line with the marker is parsed as infected, with
\* the last such line before the first marked line as the result.
C14_UnmarkedBeforeMarkedInfects ==
    \A r \in Requests :
        LET before == {i \in Unmarked(output[r]) : i < FirstMarked(output[r])} IN
        (Parsed(r) /\ before # {})
            => /\ results[r].Infected
               /\ results[r].Result = Stripped(output[r][Max(before)])

\* C14's case: two threat reports, then a clean line; the second report is
\* the result, without its path and its trailing blank.
C14_Witness ==
    \E r \in Requests :
        /\ Parsed(r)
        /\ Len(output[r]) = 3
        /\ Unmarked(output[r]) = {1, 2} /\ Marked(output[r][3])
        /\ output[r][1] # output[r][2]
        /\ results[r].Infected
        /\ results[r].Result = ThreatName

\* C15: a transcript whose first non-empty line holds the clean marker is
\* parsed as not infected with an empty result, whatever follows that line.
C15_CleanFirstIsClean ==
    \A r \in Requests :
        (/\ Parsed(r)
         /\ \E i \in DOMAIN output[r] :
               /\ Marked(output[r][i])
               /\ \A j \in 1..(i - 1) : Len(output[r][j]) = 0)
            => ~results[r].Infected /\ results[r].Result = <<>>

\* C15's case: a clean line followed by a threat report.
C15_Witness ==
    \E r \in Requests :
        /\ Parsed(r)
        /\ Len(output[r]) >= 2
        /\ Marked(output[r][1])
        /\ 2 \in Unmarked(output[r])
        /\ ~results[r].Infected

\* C16: with the scan error "exit status 119" the parser returns at once,
\* whatever the transcripts: no version query is made, and the outcome is
\* the zero outcome with the error "ScanEngine is not available".
C16_UnavailableReturnsAtOnce ==
    \A r \in Requests :
        sErr[r] = ExitUnavailable
            => /\ pc[r] \in {"parse", "respond"}
               /\ ~Invoked(r, "version")
               /\ pc[r] = "respond" =>
                     results[r] =
                        [Infected |-> FALSE, Result |-> <<>>, Engine |-> <<>>,
                         Database |-> <<>>, Updated |-> "",
                         Error |-> "ScanEngine is not available"]

\* C16's case: exit status 119 with a threat report in the transcript.
C16_Witness ==
    \E r \in Requests :
        /\ sErr[r] = ExitUnavailable
        /\ pc[r] = "respond"
        /\ Unmarked(output[r]) # {}
        /\ results[r].Error = "ScanEngine is not available"

\* C17: with any other scan error the outcome has the error's text as its
\* error and no verdict: not infected, no result, whatever the transcript.
C17_OtherErrorIsReported ==
    \A r \in Requests :
        (sErr[r] # Nil /\ sErr[r] # ExitUnavailable)
            => /\ pc[r] \in {"parse", "respond"}
               /\ pc[r] = "respond" =>
                     /\ results[r].Error = sErr[r]
                     /\ ~results[r].Infected
                     /\ results[r].Result = <<>>

\* C17's case: exit status 13 with a threat report in the transcript.
C17_Witness ==
    \E r \in Requests :
        /\ sErr[r] = ExitThreat
        /\ pc[r] = "respond"
        /\ Unmarked(output[r]) # {}
        /\ results[r].Error = "exit status 13"

\* The lines of a transcript that are "<marker> V".
Starting(lines, marker) == {i \in DOMAIN lines : HasPrefix(lines[i], marker)}

\* C18: the engine is the V of the last line "Core engine: V" and the
\* database the D of the last line "Virus base records: D", whatever other
\* lines the baseinfo transcript holds.
C18_LastMarkerLineWins ==
    \A r \in Requests :
        LET engines == Starting(baseinfo[r], CoreEngine)
            bases == Starting(baseinfo[r], VirusBase)
        IN  /\ (Parsed(r) /\ engines # {}) =>
                  results[r].Engine =
                      TrimSpace(TrimPrefix(baseinfo[r][Max(engines)], CoreEngine))
            /\ (Parsed(r) /\ bases # {}) =>
                  results[r].Database =
                      TrimSpace(TrimPrefix(baseinfo[r][Max(bases)], VirusBase))

\* C19: in every outcome returned a result comes with infected, and an error
\* message comes with no verdict, no result and no metadata.
C19_OutcomeConsistent ==
    \A r \in Requests :
        Returned(r)
            => /\ results[r].Result # <<>> => results[r].Infected
               /\ results[r].Error # "" =>
                     /\ ~results[r].Infected
                     /\ results[r].Result = <<>>
                     /\ results[r].Engine = <<>>
                     /\ results[r].Database = <<>>
                     /\ results[r].Updated = ""

\* C19's case: a threat report before a clean line, returned as infected
\* with its result, its metadata and no error.
C19_Witness ==
    \E r \in Requests :
        /\ Parsed(r)
        /\ Unmarked(output[r]) # {}
        /\ \E i \in DOMAIN output[r] : Marked(output[r][i])
        /\ results[r].Infected /\ results[r].Result # <<>>
        /\ results[r].Engine # <<>> /\ results[r].Error = ""

====
